---- MODULE Spec2Model ----
(***************************************************************************)
(* A model of the DeepFly inference server (server.py, server_old.py), of  *)
(* the weight-file fetcher (scripts/download_model.py and                  *)
(* old/scripts/download_model_h5.py) and of the TF.js converter            *)
(* (scripts/download_and_convert_model.py).                                *)
(*                                                                         *)
(* The three programs are separate processes; each has its own             *)
(* specification (SpecServer, SpecFetcher, SpecConverter) in which the     *)
(* variables of the other two stay at their initial values.                *)
(***************************************************************************)
EXTENDS Integers, Sequences, FiniteSets, TLC

VARIABLES
    \* ---- inference server
    variant,      \* which server file runs: "server" or "server_old"
    weights,      \* the file Meso4_DF.h5 on disk: "missing", "corrupt", "ok"
    phase,        \* "init" (module globals set), "loaded" (startup load done), "serving" (app.run)
    model,        \* the global `model`: "None" or "Meso4"
    req,          \* per request: its position in predict() and what it carries
    responses,    \* per request: the sequence of HTTP responses sent for it
    health,       \* the body of the last GET / response
    \* ---- fetcher
    fvariant,     \* "download_model" or "download_model_h5"
    resLen,       \* the number of chunks the remote resource streams
    advertised,   \* whether the response carries a Content-Length header
    fpc,          \* position in main()/download_file()
    file,         \* the destination file: whether it exists and the chunks in it
    fileAtStart,  \* the destination file when the current run of main() began
    downloaded,   \* download_file's local `downloaded` (bytes)
    total_size,   \* download_file's local `total_size` (bytes)
    progress,     \* the percentages written to stdout in this run
    netReqs,      \* network requests made by the current run
    failedAt,     \* where the current run failed: "none", "connect", "status", "stream", "progress"
    result,       \* exit status of the last finished run (-1 before any)
    runs,         \* the runs of main() started so far
    \* ---- converter
    cpc,          \* position in main()
    outDir,       \* the output directory: whether it exists and the files in it
    pipOk,        \* whether the pip install step succeeded
    primaryTries, \* tfjs.converters.save_keras_model calls in this run
    fallbackTries,\* converter command-line calls in this run
    convOk,       \* which conversion succeeded in this run: "none", "primary", "fallback"
    enumerated,   \* whether the output files were listed in this run
    cfailed,      \* the steps that failed in this run
    cresult,      \* exit status of the last finished run (-1 before any)
    cruns         \* the runs of main() started so far

serverVars == <<variant, weights, phase, model, req, responses, health>>
fetcherVars == <<fvariant, resLen, advertised, fpc, file, fileAtStart, downloaded,
                 total_size, progress, netReqs, failedAt, result, runs>>
converterVars == <<cpc, outDir, pipOk, primaryTries, fallbackTries, convOk,
                   enumerated, cfailed, cresult, cruns>>
vars == <<serverVars, fetcherVars, converterVars>>

----------------------------------------------------------------------------
(* Bounds of the model *)

\* the requests the server receives in one process lifetime
MaxReq == 2
\* the model's output is a multiple of 1/PDen
PDen == 7
\* the remote resource streams at most MaxChunks chunks
MaxChunks == 2
\* the fetcher is run at most MaxRuns times
MaxRuns == 3
\* the converter is run at most MaxConvRuns times
MaxConvRuns == 2

(* Program constants *)

\* the network's input resolution, image.resize((256, 256))
InputSize == 256
\* score = int(fake_probability * 100)
ScoreScale == 100
\* r.iter_content(chunk_size=8192)
ChunkSize == 8192

----------------------------------------------------------------------------
(* The inference server *)

Variants == {"server", "server_old"}
Requests == 1..MaxReq

\* jsonify({'error': ...}), 500 when the global model is None
NotLoadedMsg(v) ==
    IF v = "server" THEN "AI Model is not loaded! Server startup failed."
                    ELSE "Model is not loaded!"

NoFilePartMsg == "No file part in the request"
NoFileSelectedMsg == "No file selected for uploading"
\* str(e) of the exceptions the try block can raise
DecodeErrMsg == "cannot identify image file"
InferenceErrMsg == "inference failed"
NaNErrMsg == "cannot convert float NaN to integer"

Filenames == {"", "a.jpg"}
\* an uploaded payload: bytes Image.open decodes (to an image of some size and
\* mode) or bytes it rejects
Images == {[decodes |-> TRUE, w |-> 512, h |-> 512, mode |-> "RGB"],
           [decodes |-> TRUE, w |-> 1, h |-> 3, mode |-> "L"]}
Corrupt == [decodes |-> FALSE, w |-> 0, h |-> 0, mode |-> "none"]
Payloads == {Corrupt} \cup Images
NoTensor == [shape |-> <<>>, channels |-> "none"]

\* Image.open(...).convert('RGB'); image.resize((256, 256)); np.array(image) / 255.0;
\* (server.py only) image_array[..., ::-1]; np.expand_dims(image_array, axis=0):
\* the shape of the tensor handed to model.predict and its channel order
Preprocess(v, img) ==
    [shape |-> <<1, InputSize, InputSize, 3>>,
     channels |-> IF v = "server" THEN "BGR" ELSE "RGB"]

\* what the model can emit for one image: a probability n/PDen, or NaN
Probs == 0..PDen
\* NaN is written as the one value outside 0..PDen
NaN == PDen + 1
Values == Probs \cup {NaN}
\* prediction[0]: one sigmoid value for the Meso4 architecture server.py builds;
\* whatever the loaded file defines for server_old.py (one, two or more values)
Predictions(v) ==
    IF v = "server"
    THEN {<<p>> : p \in Values}
    ELSE {<<p>> : p \in Values}
         \cup {<<PDen - p, p>> : p \in Probs} \cup {<<NaN, NaN>>}
         \cup {<<p, 0, PDen - p>> : p \in Probs}

\* the element of prediction[0] taken as the fake probability
FakeProbability(v, pred) ==
    IF v = "server_old" /\ Len(pred) = 2 THEN pred[2] ELSE pred[1]

\* int(fake_probability * 100) for fake_probability = n/PDen, n >= 0:
\* truncation toward zero (Score_Rounded: round() in place of int())
Score_Rounded(n) == (2 * n * ScoreScale + PDen) \div (2 * PDen)

Score(n) == (n * ScoreScale) \div PDen

\* the body of a 200 response
ScoreBody(v, s) ==
    IF v = "server" THEN [score |-> s, metrics |-> {}] ELSE [score |-> s]

Resp(status, body) == [status |-> status, body |-> body]
ErrResp(status, msg) == Resp(status, [error |-> msg])

\* a request not yet received
NewReq == [pc |-> "new", hasFile |-> FALSE, filename |-> "", payload |-> Corrupt,
           tensor |-> NoTensor, inferRaised |-> FALSE, pred |-> <<>>]
NoHealth == [sent |-> FALSE, text |-> "", reports_model |-> FALSE, model_loaded |-> FALSE]

ServerInit ==
    /\ variant \in Variants
    /\ weights \in {"missing", "corrupt", "ok"}
    /\ phase = "init"
    /\ model = "None"
    /\ req = [r \in Requests |-> NewReq]
    /\ responses = [r \in Requests |-> <<>>]
    /\ health = NoHealth

ServerIdle ==
    /\ variant = "server"
    /\ weights = "ok"
    /\ phase = "init"
    /\ model = "None"
    /\ req = [r \in Requests |-> NewReq]
    /\ responses = [r \in Requests |-> <<>>]
    /\ health = NoHealth

\* load_model_on_startup (server.py) and the module-level load_model
\* (server_old.py): the value the global `model` has afterwards.  frameworkOk
\* is whether building the architecture / deserialising raises nothing.
LoadedModel(v, w, frameworkOk) ==
    IF v = "server"
    THEN IF w = "missing" THEN "None"                    \* os.path.exists fails: return
         ELSE IF frameworkOk /\ w = "ok" THEN "Meso4"    \* model = model_arch
         ELSE "None"                                     \* except: model = None
    ELSE IF frameworkOk /\ w = "ok" THEN "Meso4"         \* model = load_model(...)
         ELSE "None"                                     \* except: model = None

\* the model is loaded once, before app.run
LoadModelOnStartup ==
    /\ phase = "init"
    /\ \E frameworkOk \in BOOLEAN : model' = LoadedModel(variant, weights, frameworkOk)
    /\ phase' = "loaded"
    /\ UNCHANGED <<variant, weights, req, responses, health>>
    /\ UNCHANGED <<fetcherVars, converterVars>>

\* app.run(host='0.0.0.0', port=5000): requests are served from here on
AppRun ==
    /\ phase = "loaded"
    /\ phase' = "serving"
    /\ UNCHANGED <<variant, weights, model, req, responses, health>>
    /\ UNCHANGED <<fetcherVars, converterVars>>

\* the checks predict() makes before its try block; status 0 stands for
\* "no early return"
Validate_FileFirst(v, m, hasFile, filename) ==
    IF ~hasFile THEN ErrResp(400, NoFilePartMsg)
    ELSE IF filename = "" THEN ErrResp(400, NoFileSelectedMsg)
    ELSE IF m = "None" THEN ErrResp(500, NotLoadedMsg(v))
    ELSE Resp(0, [continue |-> TRUE])

Validate_NoFilenameCheck(v, m, hasFile, filename) ==
    IF m = "None" THEN ErrResp(500, NotLoadedMsg(v))
    ELSE IF ~hasFile THEN ErrResp(400, NoFilePartMsg)
    ELSE Resp(0, [continue |-> TRUE])

Validate(v, m, hasFile, filename) ==
    IF m = "None" THEN ErrResp(500, NotLoadedMsg(v))
    ELSE IF ~hasFile THEN ErrResp(400, NoFilePartMsg)
    ELSE IF filename = "" THEN ErrResp(400, NoFileSelectedMsg)
    ELSE Resp(0, [continue |-> TRUE])

\* except Exception as e: return jsonify({'error': str(e)}), 500
\* (an exception that left predict() would be answered by the framework's own
\* 500 page instead)
Caught_Propagate(msg) == Resp(500, [html |-> "Internal Server Error"])

Caught(msg) == ErrResp(500, msg)

\* the first half of the try block: file.read(), Image.open, convert, resize,
\* scale, (channel swap,) expand_dims
Decode(v, payload) ==
    IF payload.decodes
    THEN [raised |-> FALSE, msg |-> "", tensor |-> Preprocess(v, payload)]
    ELSE [raised |-> TRUE, msg |-> DecodeErrMsg, tensor |-> NoTensor]

\* what model.predict does with the tensor: an exception or a prediction
Outcomes(v) ==
    {[raised |-> TRUE, pred |-> <<>>]}
    \cup {[raised |-> FALSE, pred |-> p] : p \in Predictions(v)}

\* the second half of the try block: model.predict, the choice of the fake
\* probability, int(fake_probability * 100), jsonify
Infer(v, m, tensor, out) ==
    IF m = "None" THEN Caught("'NoneType' object has no attribute 'predict'")
    ELSE IF out.raised \/ tensor.shape # <<1, InputSize, InputSize, 3>>
    THEN Caught(InferenceErrMsg)
    ELSE IF FakeProbability(v, out.pred) = NaN THEN Caught(NaNErrMsg)
    ELSE Resp(200, ScoreBody(v, Score(FakeProbability(v, out.pred))))

\* POST /predict, up to the call of model.predict
PredictBegin(r) ==
    /\ phase = "serving"
    /\ req[r].pc = "new"
    /\ \E hasFile \in BOOLEAN, filename \in Filenames, payload \in Payloads :
         LET early == Validate(variant, model, hasFile, filename)
             dec   == Decode(variant, payload)
             base  == [req[r] EXCEPT !.hasFile = hasFile, !.filename = filename,
                                     !.payload = payload]
         IN  IF early.status # 0
             THEN /\ req' = [req EXCEPT ![r] = [base EXCEPT !.pc = "done"]]
                  /\ responses' = [responses EXCEPT ![r] = Append(@, early)]
             ELSE IF dec.raised
             THEN /\ req' = [req EXCEPT ![r] = [base EXCEPT !.pc = "done"]]
                  /\ responses' = [responses EXCEPT ![r] = Append(@, Caught(dec.msg))]
             ELSE /\ req' = [req EXCEPT ![r] = [base EXCEPT !.pc = "infer",
                                                            !.tensor = dec.tensor]]
                  /\ UNCHANGED responses
    /\ UNCHANGED <<variant, weights, phase, model, health>>
    /\ UNCHANGED <<fetcherVars, converterVars>>

\* POST /predict, from model.predict to the response
PredictInfer(r) ==
    /\ phase = "serving"
    /\ req[r].pc = "infer"
    /\ \E out \in Outcomes(variant) :
         LET resp == Infer(variant, model, req[r].tensor, out)
         IN  /\ req' = [req EXCEPT ![r] = [@ EXCEPT !.pc = "done", !.pred = out.pred,
                                                    !.inferRaised = out.raised]]
             /\ responses' = [responses EXCEPT ![r] = Append(@, resp)]
    /\ UNCHANGED <<variant, weights, phase, model, health>>
    /\ UNCHANGED <<fetcherVars, converterVars>>

\* GET /
HealthBody(v, m) ==
    IF v = "server"
    THEN [sent |-> TRUE, text |-> "DeepFly AI Server is running.",
          reports_model |-> FALSE, model_loaded |-> FALSE]
    ELSE [sent |-> TRUE, text |-> "DeepFly MesoNet Server is running!",
          reports_model |-> TRUE, model_loaded |-> (m # "None")]

HealthCheck_Reload ==
    /\ phase = "serving"
    /\ health' = HealthBody(variant, model)
    /\ model' = IF model = "None" THEN LoadedModel(variant, weights, TRUE) ELSE model
    /\ UNCHANGED <<variant, weights, phase, req, responses>>
    /\ UNCHANGED <<fetcherVars, converterVars>>

HealthCheck ==
    /\ phase = "serving"
    /\ health' = HealthBody(variant, model)
    /\ UNCHANGED <<variant, weights, phase, model, req, responses>>
    /\ UNCHANGED <<fetcherVars, converterVars>>

ServerNext ==
    \/ LoadModelOnStartup
    \/ AppRun
    \/ \E r \in Requests : PredictBegin(r)
    \/ \E r \in Requests : PredictInfer(r)
    \/ HealthCheck

----------------------------------------------------------------------------
(* The fetcher *)

FVariants == {"download_model", "download_model_h5"}

Absent == [exists |-> FALSE, data |-> <<>>]
\* the complete resource: its chunks, in order
Resource == [i \in 1..resLen |-> i]
Complete == [exists |-> TRUE, data |-> Resource]

FetcherInit ==
    /\ fvariant \in FVariants
    /\ resLen \in 0..MaxChunks
    /\ advertised = FALSE
    /\ fpc = "idle"
    /\ file = Absent
    /\ fileAtStart = Absent
    /\ downloaded = 0
    /\ total_size = 0
    /\ progress = <<>>
    /\ netReqs = 0
    /\ failedAt = "none"
    /\ result = -1
    /\ runs = 0

FetcherIdle ==
    /\ fvariant = "download_model"
    /\ resLen = 0
    /\ advertised = FALSE
    /\ fpc = "idle"
    /\ file = Absent
    /\ fileAtStart = Absent
    /\ downloaded = 0
    /\ total_size = 0
    /\ progress = <<>>
    /\ netReqs = 0
    /\ failedAt = "none"
    /\ result = -1
    /\ runs = 0

\* if os.path.exists(abs_output_path): ... return 0
SkipDownload_Never(f) == FALSE

SkipDownload(f) == f.exists

\* main(), up to the call of download_file
MainStart ==
    /\ fpc \in {"idle", "done"}
    /\ runs < MaxRuns
    /\ runs' = runs + 1
    /\ fileAtStart' = file
    /\ netReqs' = 0
    /\ failedAt' = "none"
    /\ downloaded' = 0
    /\ total_size' = 0
    /\ progress' = <<>>
    /\ IF SkipDownload(file)
       THEN fpc' = "done" /\ result' = 0
       ELSE fpc' = "get" /\ result' = -1
    /\ UNCHANGED <<fvariant, resLen, advertised, file>>
    /\ UNCHANGED <<serverVars, converterVars>>

\* download_file's except clause (return False) and main's `return 1`
FetchFailed(where) ==
    /\ failedAt' = where
    /\ result' = 1
    /\ fpc' = "done"

\* requests.get(url, stream=True): the connection is made or raises
Get_OpenFirst ==
    /\ fpc = "get"
    /\ netReqs' = netReqs + 1
    /\ file' = [exists |-> TRUE, data |-> <<>>]
    /\ \E ok \in BOOLEAN :
         IF ok THEN fpc' = "status" /\ UNCHANGED <<failedAt, result>>
               ELSE FetchFailed("connect")
    /\ UNCHANGED <<fvariant, resLen, advertised, fileAtStart, downloaded,
                   total_size, progress, runs>>
    /\ UNCHANGED <<serverVars, converterVars>>

Get ==
    /\ fpc = "get"
    /\ netReqs' = netReqs + 1
    /\ \E ok \in BOOLEAN :
         IF ok THEN fpc' = "status" /\ UNCHANGED <<failedAt, result>>
               ELSE FetchFailed("connect")
    /\ UNCHANGED <<fvariant, resLen, advertised, file, fileAtStart, downloaded,
                   total_size, progress, runs>>
    /\ UNCHANGED <<serverVars, converterVars>>

\* r.raise_for_status(); total_size = int(r.headers.get('content-length', 0))
RaiseForStatus ==
    /\ fpc = "status"
    /\ \E ok \in BOOLEAN, adv \in BOOLEAN :
         IF ok
         THEN /\ advertised' = adv
              /\ total_size' = IF adv THEN resLen * ChunkSize ELSE 0
              /\ fpc' = "open"
              /\ UNCHANGED <<failedAt, result>>
         ELSE /\ FetchFailed("status")
              /\ UNCHANGED <<advertised, total_size>>
    /\ UNCHANGED <<fvariant, resLen, file, fileAtStart, downloaded, progress,
                   netReqs, runs>>
    /\ UNCHANGED <<serverVars, converterVars>>

\* with open(filename, 'wb') as f: downloaded = 0
OpenFile ==
    /\ fpc = "open"
    /\ file' = [exists |-> TRUE, data |-> <<>>]
    /\ downloaded' = 0
    /\ fpc' = "loop"
    /\ UNCHANGED <<fvariant, resLen, advertised, fileAtStart, total_size, progress,
                   netReqs, failedAt, result, runs>>
    /\ UNCHANGED <<serverVars, converterVars>>

\* progress = (downloaded / total_size) * 100, in whole percents
Progress(d, t) == (d * 100) \div t

\* whether the progress line is computed after a chunk: download_model.py
\* guards it with `if total_size > 0`, download_model_h5.py does not
ReportsProgress(v, t) == v = "download_model_h5" \/ t > 0

\* one turn of `for chunk in r.iter_content(...)`: the next chunk arrives and is
\* written, or the stream raises
NextChunk ==
    /\ fpc = "loop"
    /\ downloaded < resLen * ChunkSize
    /\ \E ok \in BOOLEAN :
         IF ~ok
         THEN /\ FetchFailed("stream")
              /\ UNCHANGED <<file, downloaded, progress>>
         ELSE /\ file' = [file EXCEPT !.data = Append(@, Len(@) + 1)]
              /\ downloaded' = downloaded + ChunkSize
              /\ IF ~ReportsProgress(fvariant, total_size)
                 THEN UNCHANGED <<progress, failedAt, result, fpc>>
                 ELSE IF total_size = 0
                 \* ZeroDivisionError is no RequestException: it leaves main()
                 \* and the interpreter exits with status 1
                 THEN FetchFailed("progress") /\ UNCHANGED progress
                 ELSE /\ progress' = Append(progress, Progress(downloaded', total_size))
                      /\ UNCHANGED <<failedAt, result, fpc>>
    /\ UNCHANGED <<fvariant, resLen, advertised, fileAtStart, total_size, netReqs, runs>>
    /\ UNCHANGED <<serverVars, converterVars>>

\* the stream is exhausted: "Download complete!", return True, main returns 0
StreamEnd ==
    /\ fpc = "loop"
    /\ downloaded = resLen * ChunkSize
    /\ result' = 0
    /\ fpc' = "done"
    /\ UNCHANGED <<fvariant, resLen, advertised, file, fileAtStart, downloaded,
                   total_size, progress, netReqs, failedAt, runs>>
    /\ UNCHANGED <<serverVars, converterVars>>

FetcherNext ==
    \/ MainStart
    \/ Get
    \/ RaiseForStatus
    \/ OpenFile
    \/ NextChunk
    \/ StreamEnd

----------------------------------------------------------------------------
(* The TF.js converter *)

NoDir == [exists |-> FALSE, files |-> {}]
\* what tfjs writes: the topology and the weight shards
TfjsFiles == {"model.json", "group1-shard1of1.bin"}
KerasFile == "model.keras"

ConverterInit ==
    /\ cpc = "idle"
    /\ outDir \in {NoDir, [exists |-> TRUE, files |-> {"stale.bin"}]}
    /\ pipOk = FALSE
    /\ primaryTries = 0
    /\ fallbackTries = 0
    /\ convOk = "none"
    /\ enumerated = FALSE
    /\ cfailed = {}
    /\ cresult = -1
    /\ cruns = 0

ConverterIdle ==
    /\ cpc = "idle"
    /\ outDir = NoDir
    /\ pipOk = FALSE
    /\ primaryTries = 0
    /\ fallbackTries = 0
    /\ convOk = "none"
    /\ enumerated = FALSE
    /\ cfailed = {}
    /\ cresult = -1
    /\ cruns = 0

\* a step failed and main() ends: `return 1`, or an exception nothing catches
\* (the interpreter then exits with status 1)
ConvAbort(step) ==
    /\ cfailed' = cfailed \cup {step}
    /\ cresult' = 1
    /\ cpc' = "done"

\* main() begins: os.chdir(script_dir)
ConvStart ==
    /\ cpc \in {"idle", "done"}
    /\ cruns < MaxConvRuns
    /\ cruns' = cruns + 1
    /\ cpc' = "pip"
    /\ pipOk' = FALSE
    /\ primaryTries' = 0
    /\ fallbackTries' = 0
    /\ convOk' = "none"
    /\ enumerated' = FALSE
    /\ cfailed' = {}
    /\ cresult' = -1
    /\ UNCHANGED outDir
    /\ UNCHANGED <<serverVars, fetcherVars>>

\* subprocess.check_call([... "pip", "install" ...]); a failure is only reported
PipInstall ==
    /\ cpc = "pip"
    /\ \E ok \in BOOLEAN :
         /\ pipOk' = ok
         /\ cfailed' = IF ok THEN cfailed ELSE cfailed \cup {"pip"}
    /\ cpc' = "import"
    /\ UNCHANGED <<outDir, primaryTries, fallbackTries, convOk, enumerated, cresult, cruns>>
    /\ UNCHANGED <<serverVars, fetcherVars>>

\* import tensorflow as tf; except ImportError: return 1
ImportTF ==
    /\ cpc = "import"
    /\ \E ok \in BOOLEAN :
         IF ok THEN cpc' = "mkdir" /\ UNCHANGED <<cfailed, cresult>>
               ELSE ConvAbort("import")
    /\ UNCHANGED <<outDir, pipOk, primaryTries, fallbackTries, convOk, enumerated, cruns>>
    /\ UNCHANGED <<serverVars, fetcherVars>>

\* shutil.rmtree(output_path) if it exists; os.makedirs(output_path)
RecreateDir ==
    /\ cpc = "mkdir"
    /\ outDir' = [exists |-> TRUE, files |-> {}]
    /\ cpc' = "build"
    /\ UNCHANGED <<pipOk, primaryTries, fallbackTries, convOk, enumerated, cfailed,
                   cresult, cruns>>
    /\ UNCHANGED <<serverVars, fetcherVars>>

\* EfficientNetB0(weights='imagenet'), Sequential, build, summary: outside any try
BuildModel ==
    /\ cpc = "build"
    /\ \E ok \in BOOLEAN :
         IF ok THEN cpc' = "primary" /\ UNCHANGED <<cfailed, cresult>>
               ELSE ConvAbort("build")
    /\ UNCHANGED <<outDir, pipOk, primaryTries, fallbackTries, convOk, enumerated, cruns>>
    /\ UNCHANGED <<serverVars, fetcherVars>>

\* import tensorflowjs; tfjs.converters.save_keras_model(model, output_path);
\* a failure may leave some of the files behind
Primary ==
    /\ cpc = "primary"
    /\ primaryTries' = primaryTries + 1
    /\ \E ok \in BOOLEAN, left \in SUBSET TfjsFiles :
         IF ok
         THEN /\ outDir' = [outDir EXCEPT !.files = @ \cup TfjsFiles]
              /\ convOk' = "primary"
              /\ cpc' = "list"
              /\ UNCHANGED cfailed
         ELSE /\ left # TfjsFiles
              /\ outDir' = [outDir EXCEPT !.files = @ \cup left]
              /\ cfailed' = cfailed \cup {"primary"}
              /\ cpc' = "save"
              /\ UNCHANGED convOk
    /\ UNCHANGED <<pipOk, fallbackTries, enumerated, cresult, cruns>>
    /\ UNCHANGED <<serverVars, fetcherVars>>

\* in the except clause, outside the inner try: model.save(keras_path)
SaveKeras ==
    /\ cpc = "save"
    /\ \E ok \in BOOLEAN :
         IF ok
         THEN /\ outDir' = [outDir EXCEPT !.files = @ \cup {KerasFile}]
              /\ cpc' = "fallback"
              /\ UNCHANGED <<cfailed, cresult>>
         ELSE /\ ConvAbort("save")
              /\ UNCHANGED outDir
    /\ UNCHANGED <<pipOk, primaryTries, fallbackTries, convOk, enumerated, cruns>>
    /\ UNCHANGED <<serverVars, fetcherVars>>

\* subprocess.check_call([... converter ...]); os.remove(keras_path);
\* except Exception: return 1
Fallback_NoReturn ==
    /\ cpc = "fallback"
    /\ fallbackTries' = fallbackTries + 1
    /\ \E ok \in BOOLEAN :
         IF ok
         THEN /\ outDir' = [outDir EXCEPT !.files = (@ \cup TfjsFiles) \ {KerasFile}]
              /\ convOk' = "fallback"
              /\ cpc' = "list"
              /\ UNCHANGED <<cfailed, cresult>>
         ELSE /\ cfailed' = cfailed \cup {"fallback"}
              /\ cpc' = "list"
              /\ UNCHANGED <<outDir, convOk, cresult>>
    /\ UNCHANGED <<pipOk, primaryTries, enumerated, cruns>>
    /\ UNCHANGED <<serverVars, fetcherVars>>

Fallback ==
    /\ cpc = "fallback"
    /\ fallbackTries' = fallbackTries + 1
    /\ \E ok \in BOOLEAN :
         IF ok
         THEN /\ outDir' = [outDir EXCEPT !.files = (@ \cup TfjsFiles) \ {KerasFile}]
              /\ convOk' = "fallback"
              /\ cpc' = "list"
              /\ UNCHANGED <<cfailed, cresult>>
         ELSE /\ ConvAbort("fallback")
              /\ UNCHANGED <<outDir, convOk>>
    /\ UNCHANGED <<pipOk, primaryTries, enumerated, cruns>>
    /\ UNCHANGED <<serverVars, fetcherVars>>

\* the listing of os.listdir(output_path), the summary, return 0
ListFiles ==
    /\ cpc = "list"
    /\ enumerated' = TRUE
    /\ cresult' = 0
    /\ cpc' = "done"
    /\ UNCHANGED <<outDir, pipOk, primaryTries, fallbackTries, convOk, cfailed, cruns>>
    /\ UNCHANGED <<serverVars, fetcherVars>>

ConverterNext ==
    \/ ConvStart
    \/ PipInstall
    \/ ImportTF
    \/ RecreateDir
    \/ BuildModel
    \/ Primary
    \/ SaveKeras
    \/ Fallback
    \/ ListFiles

----------------------------------------------------------------------------
(* Specifications *)

\* the server process, from the import of its module
InitServer == ServerInit /\ FetcherIdle /\ ConverterIdle
SpecServer == InitServer /\ [][ServerNext]_vars

\* runs of the fetcher script
InitFetcher == ServerIdle /\ FetcherInit /\ ConverterIdle
SpecFetcher == InitFetcher /\ [][FetcherNext]_vars

\* runs of the converter script
InitConverter == ServerIdle /\ FetcherIdle /\ ConverterInit
SpecConverter == InitConverter /\ [][ConverterNext]_vars

----------------------------------------------------------------------------
(* Properties of the inference server, checked under SpecServer *)

\* the state of the server's state machine
ServerState ==
    IF phase = "init" THEN "UNINITIALIZED"
    ELSE IF model = "None" THEN "MODEL_LOAD_FAILED" ELSE "MODEL_LOADED"

Answered(r) == req[r].pc = "done"
\* the request passed the checks that precede the try block
PassedChecks(r) == model # "None" /\ req[r].hasFile /\ req[r].filename # ""
IsError(resp, status, msg) ==
    /\ resp.status = status
    /\ "error" \in DOMAIN resp.body
    /\ resp.body.error = msg

\* C1: when the model failed to load (the global model is None), every response
\* to POST /predict, whatever the request carries, is the 500 "model is not
\* loaded" error, and the model stays None for as long as the server serves, so
\* that no later request is answered with a 200.
C1_NotLoadedAlways500 ==
    /\ [](model = "None" =>
            \A r \in Requests : \A i \in 1..Len(responses[r]) :
                IsError(responses[r][i], 500, NotLoadedMsg(variant)))
    /\ [][phase = "serving" /\ model = "None" => model' = "None"]_vars

C1_Witness ==
    /\ model = "None"
    /\ Answered(1) /\ req[1].hasFile /\ req[1].filename # "" /\ req[1].payload.decodes
    /\ Answered(2) /\ ~req[2].hasFile
    /\ responses[1][1].status = 500 /\ responses[2][1].status = 500

\* C2 as stated: a request without a file part, or with an empty filename, is
\* answered with a 400 in every state of the server.
C2_MissingFileAlways400 ==
    \A r \in Requests :
        Answered(r) /\ (~req[r].hasFile \/ req[r].filename = "")
            => responses[r][1].status = 400

\* C2 as amended: a request without a file part, or with an empty filename, is
\* answered with a 400 (never a 500) when the model is loaded, and with the 500
\* "model is not loaded" error when the model failed to load.
C2_MissingFile400WhenLoaded ==
    \A r \in Requests :
        Answered(r) /\ (~req[r].hasFile \/ req[r].filename = "")
            => IF model = "None"
               THEN IsError(responses[r][1], 500, NotLoadedMsg(variant))
               ELSE /\ responses[r][1].status = 400
                    /\ "error" \in DOMAIN responses[r][1].body

C2_Witness ==
    /\ model = "Meso4"
    /\ Answered(1) /\ ~req[1].hasFile /\ responses[1][1].status = 400
    /\ Answered(2) /\ req[2].hasFile /\ req[2].filename = ""
    /\ responses[2][1].status = 400

\* C3: every 200 response carries an integer score in 0..100 that is the fake
\* probability times 100, truncated: score <= 100 p < score + 1, for every
\* probability p = n/PDen in [0, 1] the model emits, 0 and 1 included.
C3_ScoreInRange ==
    \A r \in Requests :
        Answered(r) /\ responses[r][1].status = 200
            => LET s == responses[r][1].body.score
                   n == IF variant = "server_old" /\ Len(req[r].pred) = 2
                        THEN req[r].pred[2] ELSE req[r].pred[1]
               IN  /\ n \in 0..PDen
                   /\ s \in 0..100
                   /\ s * PDen <= n * 100
                   /\ n * 100 < (s + 1) * PDen

\* the endpoint 1 gives 100, and a product with a fractional part of one half
\* or more is cut, not rounded
C3_Witness ==
    /\ Answered(1) /\ responses[1][1].status = 200 /\ req[1].pred = <<PDen>>
    /\ responses[1][1].body.score = 100
    /\ Answered(2) /\ responses[2][1].status = 200 /\ Len(req[2].pred) = 1
    /\ 2 * ((req[2].pred[1] * 100) % PDen) >= PDen
    /\ responses[2][1].body.score * PDen < req[2].pred[1] * 100

\* C6: the model state leaves UNINITIALIZED once, at startup, for MODEL_LOADED
\* or MODEL_LOAD_FAILED and never changes afterwards; no request is handled
\* before the model is assigned, and no step of predict or health_check, in
\* any interleaving, changes the model.
C6_ModelStateTerminal ==
    /\ []((\E r \in Requests : req[r].pc # "new") \/ health.sent
            => phase = "serving" /\ ServerState # "UNINITIALIZED")
    /\ [](model \in {"None", "Meso4"} /\ (phase = "init" => model = "None"))
    /\ [][ServerState # "UNINITIALIZED"
            => ServerState' = ServerState /\ model' = model]_vars

C6_Witness ==
    /\ model = "Meso4"
    /\ req[1].pc = "infer"
    /\ Answered(2)
    /\ health.sent

\* C7: an exception raised in predict's try block (decoding, preprocessing,
\* inference, the conversion of the score) is answered with a 500 whose body
\* is {"error": <exception text>}; every request gets at most one response, an
\* answered one exactly one, with status 200, 400 or 500; and a step that answers
\* a request changes neither the model nor the server's phase nor any other
\* request.
C7_ErrorsCaught ==
    /\ [](\A r \in Requests :
            /\ Len(responses[r]) <= 1
            /\ (Answered(r) <=> Len(responses[r]) = 1)
            /\ (Answered(r) => responses[r][1].status \in {200, 400, 500})
            /\ (Answered(r) /\ PassedChecks(r) /\ ~req[r].payload.decodes
                  => IsError(responses[r][1], 500, DecodeErrMsg))
            /\ (Answered(r) /\ PassedChecks(r) /\ req[r].payload.decodes
                    /\ req[r].inferRaised
                  => IsError(responses[r][1], 500, InferenceErrMsg))
            /\ (Answered(r) /\ PassedChecks(r) /\ req[r].payload.decodes
                    /\ ~req[r].inferRaised
                    /\ FakeProbability(variant, req[r].pred) = NaN
                  => IsError(responses[r][1], 500, NaNErrMsg)))
    /\ [][\A r \in Requests :
            responses'[r] # responses[r]
                => /\ model' = model /\ phase' = phase /\ variant' = variant
                   /\ \A q \in Requests \ {r} :
                        req'[q] = req[q] /\ responses'[q] = responses[q]]_vars

C7_Witness ==
    /\ Answered(1) /\ PassedChecks(1) /\ ~req[1].payload.decodes
    /\ responses[1][1].status = 500
    /\ Answered(2) /\ PassedChecks(2) /\ req[2].inferRaised
    /\ responses[2][1].status = 500

----------------------------------------------------------------------------
(* Properties of the fetcher, checked under SpecFetcher *)

\* C4: a run of main that finds a file at the destination makes no network
\* request, leaves the file as it is and returns 0, on every run.
C4_FetcherIdempotent ==
    fileAtStart.exists /\ fpc # "idle"
        => fpc = "done" /\ result = 0 /\ netReqs = 0 /\ file = fileAtStart

C4_Witness ==
    /\ runs = 3 /\ fpc = "done" /\ result = 0
    /\ fileAtStart.exists /\ file = Complete /\ resLen > 0

\* C5: a run that starts without a destination file and fails at the connection
\* or at the status check returns non-zero and leaves no file at the destination.
C5_UnreachableNoFile ==
    fpc = "done" /\ ~fileAtStart.exists /\ failedAt \in {"connect", "status"}
        => result # 0 /\ ~file.exists

C5_Witness ==
    /\ fpc = "done" /\ ~fileAtStart.exists /\ failedAt = "status" /\ result = 1
    /\ resLen > 0

\* C9: a run that starts without a destination file and whose stream delivers
\* every chunk without a transport error ends with the complete resource in
\* the file and returns 0, whether or not a total size was advertised.
C9_CompleteStreamSucceeds ==
    fpc = "done" /\ ~fileAtStart.exists /\ failedAt \notin {"connect", "status", "stream"}
        => result = 0 /\ file = Complete

\* C10: whenever a run returns 0, the destination file holds the complete
\* resource.
C10_SuccessMeansComplete ==
    fpc = "done" /\ result = 0 => file = Complete

----------------------------------------------------------------------------
(* Properties of the converter, checked under SpecConverter *)

\* C8: the primary conversion is tried once; the fallback is tried only after
\* the primary failed, and once; a failed framework import, or the failure of
\* both conversions, ends main with a non-zero result; main returns 0 only
\* when one of the two conversions succeeded and the output files were listed.
C8_SingleFallback ==
    /\ primaryTries <= 1
    /\ fallbackTries <= 1
    /\ (fallbackTries = 1 => primaryTries = 1 /\ "primary" \in cfailed)
    /\ (convOk = "primary" => fallbackTries = 0)
    /\ (cpc = "done" =>
         /\ ("import" \in cfailed => cresult # 0)
         /\ ({"primary", "fallback"} \subseteq cfailed => cresult # 0)
         /\ (cresult = 0 => convOk \in {"primary", "fallback"} /\ enumerated)
         /\ cresult \in {0, 1})

C8_Witness ==
    /\ cpc = "done" /\ cresult = 0 /\ convOk = "fallback" /\ fallbackTries = 1
    /\ "pip" \in cfailed /\ cruns = 2

====
